---- MODULE Spec2Model ----
(***************************************************************************)
(* State machine of the NVE water-flow dashboard (src/src/App.jsx): the    *)
(* React component's state, its event handlers, its effects and the two    *)
(* asynchronous fetches with their completion handlers.  The parameter     *)
(* selector is left out: its value is only copied into the /Observations   *)
(* request, whose answer does not depend on the request.                   *)
(*                                                                         *)
(* JavaScript values are modelled as follows.  An object is a record; a    *)
(* property the object does not have is a field the record does not have.  *)
(* Text that the code inspects (search term, station fields) is a sequence *)
(* of one-character strings; text the code only tests for emptiness and    *)
(* passes on (credential, dates) is a TLA+ string.                         *)
(* null is the record Null; the value undefined read from a missing text   *)
(* property is the sequence Undefined.                                     *)
(* A number is a binary64 value, see the section on JavaScript numbers.    *)
(*                                                                         *)
(* seriesRange and last are history variables: the code has no such state. *)
(***************************************************************************)
EXTENDS Integers, Sequences, FiniteSets, TLC

VARIABLES
    apiKey,            \* useState: the credential
    stations,          \* useState: the catalog
    filteredStations,  \* useState: the filtered view
    searchTerm,        \* useState: the search term
    selectedStation,   \* useState: the selected station or Null
    stationData,       \* useState: the observation series or Null
    loading,           \* useState: the loading flag
    startDate,         \* useState: start of the date range
    endDate,           \* useState: end of the date range
    showApiKeyInput,   \* useState: the credential-gating flag
    mounted,           \* whether the mount effects have run
    effectPending,     \* whether the search-filter effect is scheduled
    inflight,          \* requests issued whose completion handler has not run
    issued,            \* number of requests issued so far
    alerts,            \* the alert() notifications shown so far, in order
    seriesRange,       \* history: the date range the series was requested with
    last               \* the handler that ran last, with its input

vars == <<apiKey, stations, filteredStations, searchTerm, selectedStation,
          stationData, loading, startDate, endDate, showApiKeyInput, mounted, effectPending, inflight, issued, alerts,
          seriesRange, last>>

-----------------------------------------------------------------------------
(* Bounds of the model *)

\* requests issued in one behaviour
MaxReq == 3
\* length of a catalog in the filter specification
MaxStations == 3
\* length of a search term in the filter specification
MaxTermLen == 2
\* observations of a series in the series specification
MaxObs == 3

-----------------------------------------------------------------------------
(* JavaScript values *)

Null == [null |-> TRUE]
Undefined == <<"undefined">>

\* o.f for a text property: undefined when the object has no such property
Get(o, f) == IF f \in DOMAIN o THEN o[f] ELSE Undefined

Min(a, b) == IF a < b THEN a ELSE b

\* the characters of the model's texts, with their lower-case forms
LowerOf == [c \in {"a", "A", "b", "B", "1"} |->
              IF c = "A" THEN "a" ELSE IF c = "B" THEN "b" ELSE c]
Chars == DOMAIN LowerOf

\* String.prototype.toLowerCase
ToLowerCase(s) == [i \in 1..Len(s) |-> LowerOf[s[i]]]

\* String.prototype.includes: t occurs in s as a contiguous substring
Includes(s, t) ==
    \E i \in 0..(Len(s) - Len(t)) : SubSeq(s, i + 1, i + Len(t)) = t

\* all texts over cs of length at most n
Texts(cs, n) == UNION {[1..k -> cs] : k \in 0..n}

\* all sequences over S of length at most n
SeqsUpTo(S, n) == UNION {[1..k -> S] : k \in 0..n}


-----------------------------------------------------------------------------
(* The inputs of the model: what the user can type and what the remote API  *)
(* can answer.  The API is opaque: any answer can follow any request.       *)

\* import.meta.env.VITE_NVE_API_KEY: unset, or a build-time default credential
EnvKeys == {"", "envkey"}
\* what the user can type into the credential field
KeyInputs == {"", "key"}
\* what the date pickers can hold: cleared, or a calendar date
WeekAgo == "2024-01-01"
Today == "2024-01-08"
DateInputs == {"", Today}
\* what the user can type into the search field
SearchInputs == {<<>>, <<"a">>}

\* station records as /Stations returns them
StA == [stationId |-> <<"1">>, stationName |-> <<"A", "b">>,
        riverName |-> <<"a", "B">>]
\* no river name, letters in the identifier
StB == [stationId |-> <<"A", "1">>, stationName |-> <<"b">>]
\* an empty identifier
StC == [stationId |-> <<>>, stationName |-> <<"B", "a">>,
        riverName |-> <<"b">>]
\* none of the three properties the filter reads
StD == [owner |-> <<"b">>]
StationPool == {StA, StB, StC, StD}

\* catalogs the API answers with in the session specification
ServerCatalogs == {<<>>, <<StA, StB>>, <<StC>>}

\* a JSON number as an observation's value (null is Null)
Num(n) == [num |-> n]

\* series groups as /Observations returns them
GrpA == [stationId |-> <<"1">>, stationName |-> <<"A", "b">>,
         parameterName |-> <<"Q">>, unit |-> <<"m", "3", "/", "s">>,
         observations |-> <<[time |-> "t1", value |-> Num(10)],
                            [time |-> "t2", value |-> Null],
                            [time |-> "t3", value |-> Num(20)]>>]
GrpB == [stationId |-> <<"A", "1">>, stationName |-> <<"b">>,
         parameterName |-> <<"H">>, unit |-> <<"m">>,
         observations |-> <<[time |-> "t1", value |-> Num(5)]>>]
\* a group without observations and without a unit
GrpC == [stationId |-> <<"1">>, stationName |-> <<"A", "b">>,
         parameterName |-> <<"Q">>]

\* an error body: a JSON object without a data property
ErrorBody == [message |-> <<"b">>]

\* The ways a fetch can end: the transport fails (fetch rejects), the body
\* is not JSON (response.json() rejects), or the body parses to JSON.  ok is
\* the HTTP status being a success status; the code never reads it.
NetworkError == [kind |-> "networkError"]
NonJson(ok) == [kind |-> "nonJson", ok |-> ok]
Json(ok, body) == [kind |-> "json", ok |-> ok, body |-> body]

StationsResponses ==
    {NetworkError, NonJson(TRUE), NonJson(FALSE), Json(TRUE, Null),
     Json(TRUE, ErrorBody), Json(FALSE, ErrorBody)}
    \cup {Json(TRUE, [data |-> c]) : c \in ServerCatalogs}

ObservationsResponses ==
    {NetworkError, NonJson(TRUE), Json(TRUE, Null), Json(FALSE, ErrorBody),
     Json(TRUE, [data |-> <<>>]), Json(TRUE, [data |-> <<GrpA>>]),
     Json(TRUE, [data |-> <<GrpB, GrpA>>]), Json(TRUE, [data |-> <<GrpC>>])}

\* the message of the error the completion handler catches
ErrorMessage(resp) ==
    CASE resp.kind = "networkError" -> "Failed to fetch"
      [] resp.kind = "nonJson" -> "Unexpected token"
      [] OTHER -> "Cannot read properties of null"

\* whether the try block of a completion handler throws on this response:
\* fetch rejects, response.json() rejects, or the body is null and reading
\* its data property throws
Throws(resp) ==
    \/ resp.kind = "networkError"
    \/ resp.kind = "nonJson"
    \/ resp.kind = "json" /\ resp.body = Null

-----------------------------------------------------------------------------
(* The search filter *)

\* the predicate of stations.filter(...), term already lower-cased
Matches(s, term) ==
    \/ "stationName" \in DOMAIN s /\ Includes(ToLowerCase(s.stationName), term)
    \/ "riverName" \in DOMAIN s /\ Includes(ToLowerCase(s.riverName), term)
    \/ "stationId" \in DOMAIN s /\ Includes(s.stationId, term)

\* mutant: the search effect without its early return for the empty term
SearchFilterNoEarlyReturn(cat, t) ==
    LET term == ToLowerCase(t)
    IN  SelectSeq(cat, LAMBDA s : Matches(s, term))

\* mutant: the scan of the catalog starts one station too late
SearchFilterSkipsFirst(cat, t) ==
    IF t = <<>> THEN cat
    ELSE LET term == ToLowerCase(t)
         IN  SelectSeq(IF cat = <<>> THEN cat ELSE Tail(cat),
                       LAMBDA s : Matches(s, term))

\* what the search effect stores in filteredStations
SearchFilter(cat, t) ==
    IF t = <<>> THEN cat
    ELSE LET term == ToLowerCase(t)
         IN  SelectSeq(cat, LAMBDA s : Matches(s, term))

-----------------------------------------------------------------------------
(* The session *)

\* number of stations the list renders
DisplayCap == 50

Init ==
    \E env \in EnvKeys :
        /\ apiKey = env
        /\ stations = <<>>
        /\ filteredStations = <<>>
        /\ searchTerm = <<>>
        /\ selectedStation = Null
        /\ stationData = Null
        /\ loading = FALSE
        /\ startDate = ""
        /\ endDate = ""
        /\ showApiKeyInput = (env = "")
        /\ mounted = FALSE
        /\ effectPending = FALSE
        /\ inflight = {}
        /\ issued = 0
        /\ alerts = <<>>
        /\ seriesRange = Null
        /\ last = [op |-> "construct"]

\* The effects of the first render: the date range becomes the last seven
\* days, and the search effect runs once.
MountEffects ==
    /\ ~mounted
    /\ mounted' = TRUE
    /\ endDate' = Today
    /\ startDate' = WeekAgo
    /\ filteredStations' = SearchFilter(stations, searchTerm)
    /\ last' = [op |-> "mountEffects"]
    /\ UNCHANGED <<apiKey, stations, searchTerm, selectedStation, stationData, seriesRange,
                   loading, showApiKeyInput, effectPending,
                   inflight, issued, alerts>>

\* mutant: the search effect depends on the search term alone
SearchEffectDepsTermOnly == {"searchTerm"}

\* the dependency list of the search effect: it is scheduled by a render in
\* which one of these state fields was set
SearchEffectDeps == {"searchTerm", "stations"}

\* a handler can run: the component is mounted and no effect is scheduled
\* (React runs scheduled effects before it handles the next event)
Idle == mounted /\ ~effectPending

\* the search effect, run after a render in which searchTerm or stations changed
SearchEffect ==
    /\ mounted
    /\ effectPending
    /\ effectPending' = FALSE
    /\ filteredStations' = SearchFilter(stations, searchTerm)
    /\ last' = [op |-> "searchEffect", after |-> last.op]
    /\ UNCHANGED <<apiKey, stations, searchTerm, selectedStation, stationData, seriesRange,
                   loading, startDate, endDate, showApiKeyInput,
                   mounted, inflight, issued, alerts>>

\* the credential field's onChange (gated view)
SetApiKey(k) ==
    /\ Idle
    /\ showApiKeyInput
    /\ k # apiKey
    /\ apiKey' = k
    /\ last' = [op |-> "input"]
    /\ UNCHANGED <<stations, filteredStations, searchTerm, selectedStation,
                   stationData, seriesRange, loading, startDate, endDate, showApiKeyInput, mounted, effectPending, inflight, issued,
                   alerts>>

\* the search field's onChange (main view)
SetSearchTerm(t) ==
    /\ Idle
    /\ ~showApiKeyInput
    /\ t # searchTerm
    /\ searchTerm' = t
    /\ effectPending' = ("searchTerm" \in SearchEffectDeps)
    /\ last' = [op |-> "input"]
    /\ UNCHANGED <<apiKey, stations, filteredStations, selectedStation,
                   stationData, seriesRange, loading, startDate, endDate, showApiKeyInput, mounted, inflight, issued, alerts>>

\* the date pickers' onChange (main view)
SetStartDate(d) ==
    /\ Idle
    /\ ~showApiKeyInput
    /\ d # startDate
    /\ startDate' = d
    /\ last' = [op |-> "input"]
    /\ UNCHANGED <<apiKey, stations, filteredStations, searchTerm,
                   selectedStation, stationData, seriesRange, loading, endDate, showApiKeyInput, mounted, effectPending, inflight, issued,
                   alerts>>

SetEndDate(d) ==
    /\ Idle
    /\ ~showApiKeyInput
    /\ d # endDate
    /\ endDate' = d
    /\ last' = [op |-> "input"]
    /\ UNCHANGED <<apiKey, stations, filteredStations, searchTerm,
                   selectedStation, stationData, seriesRange, loading, startDate, showApiKeyInput, mounted, effectPending, inflight, issued,
                   alerts>>

-----------------------------------------------------------------------------
(* The catalog fetch *)

\* mutant: fetchStations without its guard
StationsPreconditionNone(key) == TRUE

\* fetchStations returns at once unless the credential is non-empty
StationsPrecondition(key) == key # ""

\* the /Stations request as issued
StationsRequest(id, key) ==
    [id |-> id, path |-> "/Stations", apiKey |-> key]

\* fetchStations up to its first await; via is the control that called it
FetchStations(via) ==
    /\ IF StationsPrecondition(apiKey)
       THEN /\ issued < MaxReq
            /\ loading' = TRUE
            /\ issued' = issued + 1
            /\ inflight' = inflight \cup {StationsRequest(issued + 1, apiKey)}
            /\ last' = [op |-> "fetchStations", via |-> via, sent |-> TRUE]
       ELSE /\ UNCHANGED <<loading, issued, inflight>>
            /\ last' = [op |-> "fetchStations", via |-> via, sent |-> FALSE]
    /\ UNCHANGED <<apiKey, stations, filteredStations, searchTerm,
                   selectedStation, stationData, seriesRange, startDate, endDate, showApiKeyInput, mounted, effectPending, alerts>>

\* the connect button: disabled while the credential is empty or loading
ClickConnect ==
    /\ Idle
    /\ showApiKeyInput
    /\ apiKey # ""
    /\ ~loading
    /\ FetchStations("button")

\* the Enter key in the credential field: never disabled
PressEnter ==
    /\ Idle
    /\ showApiKeyInput
    /\ FetchStations("enter")

\* mutant: the received stations are appended to the catalog
DataMergedIntoCatalog(body) ==
    stations \o (IF "data" \in DOMAIN body THEN body.data ELSE <<>>)

\* data.data || []
DataOrEmpty(body) == IF "data" \in DOMAIN body THEN body.data ELSE <<>>

\* mutant: setLoading(false) is reached only when the try block did not throw
LoadingClearedOnSuccessOnly(resp) == IF Throws(resp) THEN loading ELSE FALSE

\* the loading flag a completion handler leaves behind
LoadingAfterCompletion(resp) == FALSE

\* what the catch block of fetchStations shows
StationsAlert(resp) == <<"Error fetching stations: ", ErrorMessage(resp)>>

\* fetchStations from its first await to its end, for request r ending in resp
StationsResponse(r, resp) ==
    /\ Idle
    /\ r \in inflight
    /\ r.path = "/Stations"
    /\ IF Throws(resp)
       THEN /\ alerts' = Append(alerts, StationsAlert(resp))
            /\ UNCHANGED <<stations, filteredStations, showApiKeyInput,
                           effectPending>>
       ELSE /\ stations' = DataOrEmpty(resp.body)
            /\ filteredStations' = DataOrEmpty(resp.body)
            /\ showApiKeyInput' = FALSE
            /\ effectPending' = ("stations" \in SearchEffectDeps)
            /\ UNCHANGED alerts
    /\ loading' = LoadingAfterCompletion(resp)
    /\ inflight' = inflight \ {r}
    /\ last' = [op |-> "stationsResponse", resp |-> resp]
    /\ UNCHANGED <<apiKey, searchTerm, selectedStation, stationData, seriesRange, startDate,
                   endDate, mounted, issued>>

-----------------------------------------------------------------------------
(* The observation fetch *)

\* fetchStationData returns at once unless credential and both dates are set
ObservationsPrecondition(key, start, end) ==
    key # "" /\ start # "" /\ end # ""

\* the /Observations request as issued (without its Parameter, the value of
\* the parameter selector)
ObservationsRequest(id, key, stationId, start, end) ==
    [id |-> id, path |-> "/Observations", apiKey |-> key,
     StationId |-> stationId, ResolutionTime |-> "0",
     ReferenceTime |-> <<start, end>>]

\* mutant: the fetch starts without clearing the previous series
SeriesKeptAtFetchStart == stationData

\* the series a new fetch leaves behind while its request is in flight
SeriesAtFetchStart == Null

\* fetchStationData(stationId) up to its first await
FetchStationData(stationId, op) ==
    IF ObservationsPrecondition(apiKey, startDate, endDate)
    THEN /\ issued < MaxReq
         /\ loading' = TRUE
         /\ stationData' = SeriesAtFetchStart
         /\ seriesRange' = IF SeriesAtFetchStart = Null THEN Null
                            ELSE seriesRange
         /\ issued' = issued + 1
         /\ inflight' = inflight \cup
               {ObservationsRequest(issued + 1, apiKey, stationId, startDate, endDate)}
         /\ last' = [op |-> op, stationId |-> stationId, sent |-> TRUE]
    ELSE /\ UNCHANGED <<loading, stationData, seriesRange, issued, inflight>>
         /\ last' = [op |-> op, stationId |-> stationId, sent |-> FALSE]

\* a click on the i-th rendered station of the list
ClickStation(i) ==
    /\ Idle
    /\ ~showApiKeyInput
    /\ i \in 1..Min(DisplayCap, Len(filteredStations))
    /\ selectedStation' = filteredStations[i]
    /\ FetchStationData(Get(filteredStations[i], "stationId"), "clickStation")
    /\ UNCHANGED <<apiKey, stations, filteredStations, searchTerm, startDate,
                   endDate, showApiKeyInput, mounted, effectPending,
                   alerts>>

\* the refresh button: rendered once a station is selected, disabled while
\* loading
ClickRefresh ==
    /\ Idle
    /\ ~showApiKeyInput
    /\ selectedStation # Null
    /\ ~loading
    /\ FetchStationData(Get(selectedStation, "stationId"), "refresh")
    /\ UNCHANGED <<apiKey, stations, filteredStations, searchTerm,
                   selectedStation, startDate, endDate, showApiKeyInput, mounted, effectPending, alerts>>

\* the object fetchStationData stores for a series group
Normalise(data) ==
    [stationId |-> Get(data, "stationId"),
     stationName |-> Get(data, "stationName"),
     parameter |-> Get(data, "parameterName"),
     unit |-> Get(data, "unit"),
     observations |-> IF "observations" \in DOMAIN data
                      THEN data.observations ELSE <<>>]

\* result.data && result.data[0]
HasFirstGroup(body) == "data" \in DOMAIN body /\ Len(body.data) >= 1

\* mutant: the last group of the response is taken instead of the first
SeriesAfterLastGroup(body, old) ==
    IF HasFirstGroup(body) THEN Normalise(body.data[Len(body.data)]) ELSE old

\* mutant: a response does not replace a series that is already stored
SeriesAfterKeepsExisting(body, old) ==
    IF old = Null /\ HasFirstGroup(body) THEN Normalise(body.data[1]) ELSE old

\* the series after a response that parsed
SeriesAfter(body, old) ==
    IF HasFirstGroup(body) THEN Normalise(body.data[1]) ELSE old

\* the series after a response on which the try block threw
SeriesAfterFailure(old) == old

\* what the catch block of fetchStationData shows
ObservationsAlert(resp) ==
    <<"Error fetching station data: ", ErrorMessage(resp)>>

\* fetchStationData from its first await to its end
ObservationsResponse(r, resp) ==
    /\ Idle
    /\ r \in inflight
    /\ r.path = "/Observations"
    /\ IF Throws(resp)
       THEN /\ alerts' = Append(alerts, ObservationsAlert(resp))
            /\ stationData' = SeriesAfterFailure(stationData)
            /\ UNCHANGED seriesRange
       ELSE /\ stationData' = SeriesAfter(resp.body, stationData)
            /\ seriesRange' = IF HasFirstGroup(resp.body) THEN r.ReferenceTime
                               ELSE seriesRange
            /\ UNCHANGED alerts
    /\ loading' = LoadingAfterCompletion(resp)
    /\ inflight' = inflight \ {r}
    /\ last' = [op |-> "observationsResponse", resp |-> resp,
                req |-> [id |-> r.id, StationId |-> r.StationId],
                replaced |-> stationData]
    /\ UNCHANGED <<apiKey, stations, filteredStations, searchTerm,
                   selectedStation, startDate, endDate, showApiKeyInput, mounted, effectPending, issued>>

-----------------------------------------------------------------------------
(* JavaScript numbers.  A number is an IEEE 754 binary64 value; the model   *)
(* has the non-negative finite ones, NaN and the two infinities.  A natural *)
(* number of any size is the sequence of its binary digits, least           *)
(* significant first, without a leading zero digit.  A finite number is the *)
(* record [m, e] that stands for m * 2^e, with m odd or zero.  The range of *)
(* the exponent is not modelled: the values of the model neither overflow   *)
(* nor underflow.                                                           *)

\* significand bits of a binary64 value
Precision == 53

NaN == [nan |-> TRUE]
Infinity == [inf |-> 1]
NegInfinity == [inf |-> -1]

RECURSIVE NatBits(_)
NatBits(n) == IF n = 0 THEN <<>> ELSE <<n % 2>> \o NatBits(n \div 2)

BitAt(b, i) == IF i >= 1 /\ i <= Len(b) THEN b[i] ELSE 0

\* b without its leading zero digits
TrimHigh(b) ==
    LET ones == {i \in 1..Len(b) : b[i] = 1}
    IN  IF ones = {} THEN <<>>
        ELSE SubSeq(b, 1, CHOOSE i \in ones : \A j \in ones : j <= i)

ShiftLeft(b, k) == IF b = <<>> THEN <<>> ELSE [i \in 1..k |-> 0] \o b

LessBits(a, b) ==
    IF Len(a) # Len(b) THEN Len(a) < Len(b)
    ELSE \E i \in 1..Len(a) :
            a[i] < b[i] /\ \A j \in (i + 1)..Len(a) : a[j] = b[j]

\* The carry of an addition and the remainder of a division run through the
\* number in limbs of LimbBits digits, least significant limb first.
LimbBits == 16
LimbBase == 2^LimbBits

RECURSIVE LimbFrom(_, _, _)
LimbFrom(b, j, t) ==
    IF t = LimbBits THEN 0
    ELSE BitAt(b, LimbBits * (j - 1) + t + 1) + 2 * LimbFrom(b, j, t + 1)

Limbs(b) ==
    [j \in 1..((Len(b) + LimbBits - 1) \div LimbBits) |-> LimbFrom(b, j, 0)]

Bits(l) ==
    TrimHigh([i \in 1..(LimbBits * Len(l)) |->
                 (l[(i - 1) \div LimbBits + 1] \div 2^((i - 1) % LimbBits)) % 2])

LimbAt(l, j) == IF j <= Len(l) THEN l[j] ELSE 0

RECURSIVE AddFrom(_, _, _, _)
AddFrom(a, b, j, carry) ==
    IF j > Len(a) /\ j > Len(b) THEN <<carry>>
    ELSE LET s == LimbAt(a, j) + LimbAt(b, j) + carry
         IN  <<s % LimbBase>> \o AddFrom(a, b, j + 1, s \div LimbBase)

\* a + b
AddBits(a, b) == Bits(AddFrom(Limbs(a), Limbs(b), 1, 0))

RECURSIVE DivFrom(_, _)
DivFrom(l, n) ==
    IF l = <<>> THEN [q |-> <<>>, r |-> 0]
    ELSE LET hi == DivFrom(Tail(l), n)
             cur == LimbBase * hi.r + l[1]
         IN  [q |-> <<cur \div n>> \o hi.q, r |-> cur % n]

\* quotient and remainder of the division of b by the small number n
DivBits(b, n) == LET d == DivFrom(Limbs(b), n) IN [q |-> Bits(d.q), r |-> d.r]

\* the record of m * 2^e
Finite(m, e) ==
    LET ones == {i \in 1..Len(m) : m[i] = 1}
    IN  IF ones = {} THEN [m |-> <<>>, e |-> 0]
        ELSE LET low == CHOOSE i \in ones : \A j \in ones : i <= j
             IN  [m |-> SubSeq(m, low, Len(m)), e |-> e + low - 1]

\* m * 2^e rounded to the nearest number, ties to the even significand
RoundToNearest(m, e) ==
    IF Len(m) <= Precision THEN Finite(m, e)
    ELSE LET k == Len(m) - Precision
             kept == SubSeq(m, k + 1, Len(m))
             above == m[k] = 1 /\ \E i \in 1..(k - 1) : m[i] = 1
             tie == m[k] = 1 /\ \A i \in 1..(k - 1) : m[i] = 0
         IN  Finite(IF above \/ (tie /\ kept[1] = 1)
                    THEN AddBits(kept, <<1>>) ELSE kept,
                    e + k)

FromInt(n) == Finite(NatBits(n), 0)

\* x + y
Plus(x, y) ==
    LET e == Min(x.e, y.e)
    IN  RoundToNearest(AddBits(ShiftLeft(x.m, x.e - e), ShiftLeft(y.m, y.e - e)),
                       e)

\* x / n for the whole number n
Divide(x, n) ==
    IF n = 0 THEN (IF x.m = <<>> THEN NaN ELSE Infinity)
    ELSE LET s == Precision + 2 + Len(NatBits(n))
             d == DivBits(ShiftLeft(x.m, s), n)
         IN  RoundToNearest(<<IF d.r = 0 THEN 0 ELSE 1>> \o d.q, x.e - s - 1)

\* x < y
Less(x, y) ==
    LET e == Min(x.e, y.e)
    IN  LessBits(ShiftLeft(x.m, x.e - e), ShiftLeft(y.m, y.e - e))

LessEq(x, y) == x = y \/ Less(x, y)

-----------------------------------------------------------------------------
(* The derived statistics *)

\* a JSON number with one decimal, n/10, as an observation's value
Dec(n) == [tenths |-> n]

\* the number JSON.parse makes of the literal: the nearest binary64 value
Double(v) ==
    IF "num" \in DOMAIN v THEN FromInt(v.num)
    ELSE Divide(FromInt(v.tenths), 10)

\* o.value || 0
ValueOrZero(o) ==
    IF "value" \in DOMAIN o /\ o.value # Null /\ Double(o.value) # FromInt(0)
    THEN Double(o.value) ELSE FromInt(0)

\* observations.map(o => o.value || 0)
ValuesOrZero(obs) == [i \in 1..Len(obs) |-> ValueOrZero(obs[i])]

Range(f) == {f[i] : i \in DOMAIN f}

\* Math.min(...vs)
MathMin(vs) ==
    IF vs = <<>> THEN Infinity
    ELSE CHOOSE x \in Range(vs) : \A y \in Range(vs) : LessEq(x, y)

\* Math.max(...vs)
MathMax(vs) ==
    IF vs = <<>> THEN NegInfinity
    ELSE CHOOSE x \in Range(vs) : \A y \in Range(vs) : LessEq(y, x)

\* vs.reduce((sum, v) => sum + v, 0), from the i-th element on
RECURSIVE Reduce(_, _, _)
Reduce(vs, i, sum) ==
    IF i > Len(vs) THEN sum ELSE Reduce(vs, i + 1, Plus(sum, vs[i]))

\* mutant: the count leaves out the observations without a value
CountOfValues(obs) ==
    Cardinality({i \in 1..Len(obs) :
                    "value" \in DOMAIN obs[i] /\ obs[i].value # Null})

\* observations.length
CountOf(obs) == Len(obs)

\* the stats object of a render
Stats(series) ==
    IF series = Null THEN Null
    ELSE LET vs == ValuesOrZero(series.observations)
         IN  [count |-> CountOf(series.observations),
              min |-> MathMin(vs),
              max |-> MathMax(vs),
              avg |-> Divide(Reduce(vs, 1, FromInt(0)),
                             CountOf(series.observations))]

-----------------------------------------------------------------------------
(* The export.  A text is a sequence of characters; a text the code passes  *)
(* on without looking into it (a timestamp, a date) is one element of it.   *)

Digit(d) == <<"0", "1", "2", "3", "4", "5", "6", "7", "8", "9">>[d + 1]

RECURSIVE Digits(_)
Digits(n) ==
    IF n < 10 THEN <<Digit(n)>> ELSE Digits(n \div 10) \o <<Digit(n % 10)>>

\* String(v) for a number: the shortest decimal that reads back as v
NumberText(v) ==
    IF "num" \in DOMAIN v THEN Digits(v.num)
    ELSE Digits(v.tenths \div 10) \o
         (IF v.tenths % 10 = 0 THEN <<>> ELSE <<".", Digit(v.tenths % 10)>>)

\* the text of an opaque string
Opaque(t) == IF t = "" THEN <<>> ELSE <<t>>

\* an element as Array.prototype.join writes it: null and undefined give
\* the empty text
TimeText(o) == IF "time" \in DOMAIN o THEN Opaque(o.time) ELSE <<>>
ValueText(o) ==
    IF "value" \in DOMAIN o /\ o.value # Null THEN NumberText(o.value) ELSE <<>>

\* parts.join(sep)
RECURSIVE Join(_, _)
Join(parts, sep) ==
    IF parts = <<>> THEN <<>>
    ELSE IF Len(parts) = 1 THEN parts[1]
    ELSE parts[1] \o sep \o Join(Tail(parts), sep)

\* ['Time', `Value (${unit})`]
Headers(series) ==
    << <<"T", "i", "m", "e">>,
       <<"V", "a", "l", "u", "e", " ", "(">> \o series.unit \o <<")">> >>

\* [obs.time, obs.value].join(',')
RowText(o) == Join(<<TimeText(o), ValueText(o)>>, <<",">>)

\* mutant: every line, the last one too, ends with a newline
CsvTextNewlineTerminated(series) ==
    Join(<<Join(Headers(series), <<",">>)>> \o
         [i \in 1..Len(series.observations) |-> RowText(series.observations[i])],
         <<"\n">>) \o <<"\n">>

\* [headers.join(','), ...rows].join('\n')
CsvText(series) ==
    Join(<<Join(Headers(series), <<",">>)>> \o
         [i \in 1..Len(series.observations) |-> RowText(series.observations[i])],
         <<"\n">>)

\* `${stationData.stationId}_${startDate}_${endDate}.csv`
FileName(series, start, end) ==
    series.stationId \o <<"_">> \o Opaque(start) \o <<"_">> \o Opaque(end)
        \o <<".", "c", "s", "v">>

\* downloadCSV returns at once unless there is a series with an observation
Exports(series) == series # Null /\ Len(series.observations) # 0

\* the download button, rendered while there is a series
DownloadCSV ==
    /\ Idle
    /\ ~showApiKeyInput
    /\ stationData # Null
    /\ last' = IF Exports(stationData)
               THEN [op |-> "downloadCSV", exported |-> TRUE,
                     name |-> FileName(stationData, startDate, endDate),
                     csv |-> CsvText(stationData)]
               ELSE [op |-> "downloadCSV", exported |-> FALSE]
    /\ UNCHANGED <<apiKey, stations, filteredStations, searchTerm,
                   selectedStation, stationData, seriesRange, loading,
                   startDate, endDate, showApiKeyInput, mounted,
                   effectPending, inflight, issued, alerts>>

-----------------------------------------------------------------------------
(* The specifications *)

Deliver ==
    \E r \in inflight :
        \/ \E resp \in StationsResponses : StationsResponse(r, resp)
        \/ \E resp \in ObservationsResponses : ObservationsResponse(r, resp)

Next ==
    \/ MountEffects
    \/ SearchEffect
    \/ \E k \in KeyInputs : SetApiKey(k)
    \/ \E t \in SearchInputs : SetSearchTerm(t)
    \/ \E d \in DateInputs : SetStartDate(d)
    \/ \E d \in DateInputs : SetEndDate(d)
    \/ ClickConnect
    \/ PressEnter
    \/ \E i \in 1..DisplayCap : ClickStation(i)
    \/ ClickRefresh
    \/ DownloadCSV
    \/ Deliver

Spec == Init /\ [][Next]_vars

\* The event loop runs every scheduled effect and every completion handler
\* whose response has arrived.
FairSpec ==
    /\ Spec
    /\ WF_vars(MountEffects)
    /\ WF_vars(SearchEffect)
    /\ SF_vars(Deliver)

-----------------------------------------------------------------------------
(* The filter specification: the search effect and the search field on     *)
(* every catalog of at most MaxStations stations of the pool and every     *)
(* term of at most MaxTermLen characters, starting in the state a catalog  *)
(* response leaves behind.                                                 *)

FilterCatalogs == SeqsUpTo(StationPool, MaxStations)
FilterTerms == Texts(Chars, MaxTermLen)

FilterInit ==
    \E c \in FilterCatalogs, t \in FilterTerms :
        /\ apiKey = "key"
        /\ stations = c
        /\ filteredStations = c
        /\ searchTerm = t
        /\ selectedStation = Null
        /\ stationData = Null
        /\ loading = FALSE
        /\ startDate = WeekAgo
        /\ endDate = Today
        /\ showApiKeyInput = FALSE
        /\ mounted = TRUE
        /\ effectPending = TRUE
        /\ inflight = {}
        /\ issued = 1
        /\ alerts = <<>>
        /\ seriesRange = Null
        /\ last = [op |-> "stationsResponse", resp |-> Json(TRUE, [data |-> c])]

FilterNext ==
    \/ SearchEffect
    \/ \E t \in FilterTerms : SetSearchTerm(t)

FilterSpec == FilterInit /\ [][FilterNext]_vars

-----------------------------------------------------------------------------
(* The series specification: the statistics and the export on every series *)
(* of at most MaxObs observations of the pool, starting in the state an     *)
(* /Observations response leaves behind.                                    *)

ObsTimes == {"t1", "t2"}
ObsValues == {Null, Num(0), Num(10), Num(20), Dec(1)}
ObsPool == {[time |-> t, value |-> v] : t \in ObsTimes, v \in ObsValues}

\* the groups of the pool, and the group of GrpA with a third timestamp
SeriesGroups ==
    {[stationId |-> <<"1">>, stationName |-> <<"A", "b">>,
      parameterName |-> <<"Q">>, unit |-> <<"m", "3", "/", "s">>,
      observations |-> obs] : obs \in SeqsUpTo(ObsPool, MaxObs)}
    \cup {GrpA, GrpC}

SeriesBodies == {[data |-> <<g>>] : g \in SeriesGroups} \cup {ErrorBody}

SeriesInit ==
    \E body \in SeriesBodies :
        LET r == ObservationsRequest(2, "key", <<"1">>, WeekAgo, Today)
        IN  /\ apiKey = "key"
            /\ stations = <<StA>>
            /\ filteredStations = <<StA>>
            /\ searchTerm = <<>>
            /\ selectedStation = StA
            /\ stationData = SeriesAfter(body, Null)
            /\ loading = FALSE
            /\ startDate = WeekAgo
            /\ endDate = Today
            /\ showApiKeyInput = FALSE
            /\ mounted = TRUE
            /\ effectPending = FALSE
            /\ inflight = {}
            /\ issued = 2
            /\ alerts = <<>>
            /\ seriesRange = IF HasFirstGroup(body) THEN r.ReferenceTime
                             ELSE Null
            /\ last = [op |-> "observationsResponse", resp |-> Json(TRUE, body),
                       req |-> [id |-> r.id, StationId |-> r.StationId],
                       replaced |-> Null]

SeriesNext == DownloadCSV

SeriesSpec == SeriesInit /\ [][SeriesNext]_vars

-----------------------------------------------------------------------------
(* Properties *)

\* the handler that ran last is an invocation of fetchStationData
FetchInvoked(l) == l.op \in {"clickStation", "refresh"}
\* ... that got past its preconditions and issued a request
FetchStarted(l) == FetchInvoked(l) /\ l.sent

\* the handler that ran last is a completion handler
StationsDone(l) == l.op = "stationsResponse"
ObservationsDone(l) == l.op = "observationsResponse"

\* a JSON object body with a data property
HasData(resp) ==
    resp.kind = "json" /\ resp.body # Null /\ "data" \in DOMAIN resp.body

ObservationRequests == {r \in inflight : r.path = "/Observations"}

\* C1: an invocation of fetchStationData that passes its preconditions sets
\* loading and clears the series in the same step, and in no reachable state
\* is loading true while a series is present.
C1_NoSeriesWhileLoading ==
    /\ [](~(loading /\ stationData # Null))
    /\ [][FetchStarted(last') => (loading' /\ stationData' = Null)]_vars

\* a second observation fetch has just been started while another request
\* is in flight
C1_Witness ==
    /\ FetchStarted(last)
    /\ Cardinality(ObservationRequests) >= 2
    /\ loading
    /\ stationData = Null

\* C2: whenever a request is in flight, loading is true.
C2_LoadingWhileInFlight == inflight # {} => loading

\* C3: with no request in flight loading is false, and when the event loop
\* runs every completion handler, a fetch in flight leads to loading false.
C3_LoadingCleared ==
    /\ [](inflight = {} => ~loading)
    /\ (inflight # {}) ~> ~loading

\* every request issued has ended, the last one with a failure
C3_Witness ==
    /\ issued >= 2
    /\ inflight = {}
    /\ ~loading
    /\ ObservationsDone(last)
    /\ Throws(last.resp)

\* C4: right after the completion handler of a failed observation fetch, the
\* error has been shown and the series is absent.
C4_FailureLeavesSeriesAbsent ==
    (ObservationsDone(last) /\ Throws(last.resp)) =>
        /\ alerts # <<>>
        /\ alerts[Len(alerts)] = ObservationsAlert(last.resp)
        /\ stationData = Null

CatalogFailure(resp) ==
    \/ resp.kind = "networkError"
    \/ resp.kind = "nonJson"
    \/ ~resp.ok

\* C6: the completion handler of a failed catalog fetch shows an error and
\* leaves the catalog and the gating flag as they were.
C6_CatalogFailureKeepsState ==
    [][(StationsDone(last') /\ CatalogFailure(last'.resp)) =>
          /\ Len(alerts') = Len(alerts) + 1
          /\ stations' = stations
          /\ showApiKeyInput' = showApiKeyInput]_vars

\* C7: right after a catalog response whose body is an object with a data
\* array, the catalog is that array and the gating flag is cleared.
C7_CatalogReplaced ==
    (StationsDone(last) /\ HasData(last.resp)) =>
        /\ stations = last.resp.body.data
        /\ ~showApiKeyInput

\* a catalog response has replaced a catalog that held the selected station
C7_Witness ==
    /\ StationsDone(last)
    /\ HasData(last.resp)
    /\ last.resp.body.data = <<StC>>
    /\ stations = <<StC>>
    /\ selectedStation = StA
    /\ ~showApiKeyInput

\* an absent or empty station identifier
EmptyId(id) == id = <<>> \/ id = Undefined

\* C8: an invocation of fetchStationData with an empty credential, a missing
\* start date, a missing end date or an empty station identifier issues no
\* request and leaves loading and the series as they were.
C8_NoOpUnlessPreconditions ==
    [][(/\ FetchInvoked(last')
        /\ \/ apiKey = ""
           \/ startDate = ""
           \/ endDate = ""
           \/ EmptyId(last'.stationId)) =>
          /\ inflight' = inflight
          /\ loading' = loading
          /\ stationData' = stationData]_vars

\* C9: fetchStations with an empty credential changes neither the requests
\* in flight nor loading, catalog, filtered view and gating flag; and no
\* request in flight carries an empty credential.
C9_EmptyCredentialNoRequest ==
    /\ [](\A r \in inflight : r.apiKey # "")
    /\ [][(last'.op = "fetchStations" /\ apiKey = "") =>
            UNCHANGED <<inflight, issued, loading, stations, filteredStations,
                        showApiKeyInput>>]_vars

\* Enter was pressed in the empty credential field
C9_Witness ==
    /\ last.op = "fetchStations"
    /\ ~last.sent
    /\ apiKey = ""
    /\ inflight = {}
    /\ ~loading
    /\ showApiKeyInput

\* s is a subsequence of c: an increasing choice of positions of c spells s
IsSubsequence(s, c) ==
    \E f \in [1..Len(s) -> 1..Len(c)] :
        /\ \A i \in 1..Len(s) : s[i] = c[f[i]]
        /\ \A i, j \in 1..Len(s) : i < j => f[i] < f[j]

\* C10: once the search effect has run, the filtered view for the empty
\* term is the catalog, and for any term it is a subsequence of the catalog
\* in the catalog's order.
C10_FilterSubsequence ==
    ~effectPending =>
        /\ (searchTerm = <<>> => filteredStations = stations)
        /\ IsSubsequence(filteredStations, stations)

\* the effect has kept the first and the last of three stations
C10_Witness ==
    /\ ~effectPending
    /\ last.op = "searchEffect"
    /\ searchTerm # <<>>
    /\ Len(stations) = 3
    /\ filteredStations = <<stations[1], stations[3]>>
    /\ stations[1] # stations[3]

\* station s has a name, river name or identifier that contains term t,
\* letter case ignored on both sides
MatchesIgnoringCase(s, t) ==
    \E f \in {"stationName", "riverName", "stationId"} :
        f \in DOMAIN s /\ Includes(ToLowerCase(s[f]), ToLowerCase(t))

\* C11: once the search effect has run for a non-empty term, the filtered
\* view holds, in catalog order, exactly the stations whose name, river name
\* or identifier contains the term, letter case ignored in all three fields;
\* a station that lacks a field is judged on the fields it has.
C11_CaseInsensitiveOnAllFields ==
    (~effectPending /\ searchTerm # <<>>) =>
        filteredStations =
            SelectSeq(stations, LAMBDA s : MatchesIgnoringCase(s, searchTerm))

\* C12: once the search effect has run, filtering the filtered view again
\* by the same term gives the filtered view.
C12_FilterIdempotent ==
    ~effectPending =>
        SearchFilter(filteredStations, searchTerm) = filteredStations

\* the effect has dropped some stations of the catalog and kept others
C12_Witness ==
    /\ ~effectPending
    /\ last.op = "searchEffect"
    /\ searchTerm # <<>>
    /\ Len(filteredStations) >= 2
    /\ Len(filteredStations) < Len(stations)

\* C13: the statistics are absent exactly when the series is absent, and
\* for a series with at least one observation min <= avg <= max.
C13_StatsAbsentAndOrdered ==
    /\ Stats(stationData) = Null <=> stationData = Null
    /\ (stationData # Null /\ Len(stationData.observations) >= 1) =>
           /\ LessEq(Stats(stationData).min, Stats(stationData).avg)
           /\ LessEq(Stats(stationData).avg, Stats(stationData).max)

\* the binary64 values of the observations, a missing value as zero
ZeroForNull(obs) ==
    [i \in 1..Len(obs) |->
        IF obs[i].value = Null THEN FromInt(0) ELSE Double(obs[i].value)]

RECURSIVE WholeSum(_)
WholeSum(obs) ==
    IF obs = <<>> THEN 0
    ELSE (IF obs[1].value = Null THEN 0 ELSE obs[1].value.num)
         + WholeSum(Tail(obs))

AllWhole(obs) ==
    \A i \in 1..Len(obs) : obs[i].value = Null \/ "num" \in DOMAIN obs[i].value

\* C14: count is the number of observations, those without a value
\* included; min and max are the least and the greatest of the values with
\* null as 0; avg is their sum divided by count, so that whole values whose
\* sum count divides have that quotient as avg; the values 10, null, 20
\* give count 3, min 0, max 20 and avg 10.
C14_StatsValues ==
    stationData # Null =>
        LET obs == stationData.observations
            zs == ZeroForNull(obs)
            st == Stats(stationData)
        IN  /\ st.count = Len(obs)
            /\ obs # <<>> =>
                   /\ st.min \in Range(zs) /\ \A z \in Range(zs) : LessEq(st.min, z)
                   /\ st.max \in Range(zs) /\ \A z \in Range(zs) : LessEq(z, st.max)
                   /\ st.avg = Divide(Reduce(zs, 1, FromInt(0)), Len(obs))
            /\ (obs # <<>> /\ AllWhole(obs) /\ WholeSum(obs) % Len(obs) = 0) =>
                   st.avg = FromInt(WholeSum(obs) \div Len(obs))
            /\ [i \in 1..Len(obs) |-> obs[i].value] = <<Num(10), Null, Num(20)>> =>
                   st = [count |-> 3, min |-> FromInt(0), max |-> FromInt(20),
                         avg |-> FromInt(10)]

\* the series of the values 10, null, 20
C14_Witness ==
    /\ stationData # Null
    /\ stationData.observations = GrpA.observations
    /\ Stats(stationData).avg = FromInt(10)

\* the lines of a text: what lies between its newlines
Lines(text) ==
    LET nl == {i \in 1..Len(text) : text[i] = "\n"}
        cut(k) == IF k = 0 THEN 0
                  ELSE IF k = Cardinality(nl) + 1 THEN Len(text) + 1
                  ELSE CHOOSE i \in nl : Cardinality({j \in nl : j < i}) = k - 1
    IN  [k \in 1..(Cardinality(nl) + 1) |->
            SubSeq(text, cut(k - 1) + 1, cut(k) - 1)]

\* the export that has just run wrote count+1 lines: the header with the
\* unit, then for each observation its time, a comma and its value, the
\* value empty when it is null
ExportedLines ==
    /\ last.exported
    /\ LET obs == stationData.observations
           lines == Lines(last.csv)
       IN  /\ Len(lines) = Len(obs) + 1
           /\ lines[1] = <<"T", "i", "m", "e", ",", "V", "a", "l", "u", "e", " ", "(">>
                             \o stationData.unit \o <<")">>
           /\ \A i \in 1..Len(obs) :
                  lines[i + 1] = <<obs[i].time, ",">> \o
                      (IF obs[i].value = Null THEN <<>>
                       ELSE NumberText(obs[i].value))

\* C15 as stated: for a series of count >= 0 observations the export
\* writes count+1 lines, the header first, then the observations in order.
C15_ExportForAnyCount ==
    last.op = "downloadCSV" => ExportedLines

\* C15 amended: for a series of count >= 1 observations the export writes
\* count+1 lines, the header first, then the observations in order (for the
\* values 10, null, 20 at t1, t2, t3 with unit m3/s the text of scenario 5);
\* for a series without observations nothing is exported.
C15_ExportLines ==
    last.op = "downloadCSV" =>
        /\ IF Len(stationData.observations) >= 1 THEN ExportedLines
           ELSE ~last.exported
        /\ (stationData.observations = GrpA.observations
               /\ stationData.unit = <<"m", "3", "/", "s">>) =>
               last.csv = <<"T", "i", "m", "e", ",", "V", "a", "l", "u", "e", " ",
                            "(", "m", "3", "/", "s", ")", "\n",
                            "t1", ",", "1", "0", "\n",
                            "t2", ",", "\n",
                            "t3", ",", "2", "0">>

\* the series of scenario 5 has been exported
C15_Witness ==
    /\ last.op = "downloadCSV"
    /\ last.exported
    /\ stationData.observations = GrpA.observations
    /\ Len(Lines(last.csv)) = 4

\* C16: fetches are neither cancelled nor sequenced: the response to a
\* request is applied when it arrives although a newer fetch has been
\* issued since, whether or not the newer one has been answered.
C16_StaleResponseApplied ==
    (/\ ObservationsDone(last)
     /\ HasData(last.resp)
     /\ HasFirstGroup(last.resp.body)
     /\ last.req.id < issued) =>
        stationData = Normalise(last.resp.body.data[1])

\* the fetch for station 1 was issued, then the fetch for station A1; the
\* answer to the second arrived first and was stored; the answer to the
\* first has replaced it while station A1 is selected
C16_Witness ==
    /\ ObservationsDone(last)
    /\ last.req = [id |-> 2, StationId |-> StA.stationId]
    /\ last.resp = Json(TRUE, [data |-> <<GrpA>>])
    /\ last.replaced = Normalise(GrpB)
    /\ issued = 3
    /\ inflight = {}
    /\ selectedStation = StB
    /\ stationData = Normalise(GrpA)

\* C17: once the scheduled recomputation has run, the filtered view is the
\* filter of the current catalog by the current search term, whatever
\* search-term edits and catalog responses came before.
C17_FilteredViewCurrent ==
    Idle => filteredStations = SearchFilter(stations, searchTerm)

\* a catalog has arrived while a term was active, and the recomputation
\* has taken out of the view a station of the new catalog
C17_Witness ==
    /\ Idle
    /\ last = [op |-> "searchEffect", after |-> "stationsResponse"]
    /\ searchTerm = <<"a">>
    /\ stations = <<StA, StB>>
    /\ filteredStations = <<StA>>

\* C18: the start and end dates in the name of an exported file are the
\* date range the exported series was requested with.
C18_FileNameDatesOfSeries ==
    (last.op = "downloadCSV" /\ last.exported) =>
        last.name = FileName(stationData, seriesRange[1], seriesRange[2])

\* C19: the main view is shown only after a catalog fetch has been issued:
\* whenever the component is rendered with the gating flag false, a request
\* has been made (the first request of a session is a /Stations request).
C19_MainViewAfterCatalogFetch ==
    (mounted /\ ~showApiKeyInput) => issued >= 1
====
